---- MODULE Spec2Model ----
(***************************************************************************)
(* RTPReceiver (rtpreceiver.go): one receiver shared by several goroutines *)
(* that call NewRTPReceiver, Track, Receive, Read, ReadRTCP, Stop and      *)
(* readRTP.  Every goroutine has a program counter; a step of the model is *)
(* one synchronisation-relevant step of one call.  The channels `closed`   *)
(* and `received` are only ever closed, so each is a BOOLEAN: TRUE when    *)
(* the channel has been closed.                                            *)
(***************************************************************************)
EXTENDS Integers, FiniteSets, Sequences, TLC

\* ---------------------------------------------------------------- bounds
MaxCalls == 3        \* calls made on the receiver, over all goroutines
MaxN == 1            \* largest byte count a reader returns
MaxSSRC == 2         \* SSRCs the parameters of Receive range over

\* the goroutines sharing the receiver: every race on it is between two calls
Procs == {"g1", "g2"}
NoProc == "none"
SSRCs == 1..MaxSSRC
Kinds == {"audio", "video"}
Self  == "r"         \* the receiver, as the track's back-reference

\* ---------------------------------------------------------------- values
NoErr            == "nil"
ErrNilTransport  == "DTLSTransport must not be nil"
ErrAlready       == "Receive has already been called"
ErrStopped       == "RTPSender has been stopped"
ErrSRTPSession   == "getSRTPSession failed"
ErrOpenSRTP      == "srtp OpenReadStream failed"
ErrSRTCPSession  == "getSRTCPSession failed"
ErrOpenSRTCP     == "srtcp OpenReadStream failed"
ErrRead          == "read failed"
ErrClose         == "close failed"
ErrUnmarshal     == "unmarshal failed"
ErrNilDeref      == "nil pointer dereference"

NilTransport == "nil"
Transports   == {NilTransport, "dtls"}
NilTrack     == [kind |-> "nil", ssrc |-> 0, receiver |-> "nil"]
NilReader    == [wraps |-> "nil", ssrc |-> 0]
NoRet        == [n |-> 0, err |-> "none", val |-> NilTrack, pkt |-> "nil"]
NoGot        == [rdr |-> "none", n |-> 0, err |-> "none"]
NoAt         == [recvRet |-> FALSE, recvOk |-> FALSE, stopOk |-> FALSE]
NoNew        == [kind |-> "nil", transport |-> NilTransport]

VARIABLES
  exists,          \* NewRTPReceiver has returned a receiver
  newErr,          \* error of the last NewRTPReceiver call ("none" before any)
  newArg,          \* arguments of the last NewRTPReceiver call
  kind,            \* r.kind
  transport,       \* r.transport
  track,           \* r.track
  closedCh,        \* r.closed has been closed
  receivedCh,      \* r.received has been closed
  mu,              \* r.mu: w the goroutine holding Lock, r those holding RLock
  rtpReadStream,   \* r.rtpReadStream
  rtcpReadStream,  \* r.rtcpReadStream
  rdState,         \* the two lossyReadClosers: closed, and close() calls so far
  pc,              \* position of each goroutine
  op,              \* the call each goroutine is in (or made last)
  arg,             \* parameters.encodings.SSRC of the goroutine's Receive
  ldr,             \* the reader a read path has loaded from the receiver
  ret,             \* what the goroutine's last call returned
  panicked,        \* a goroutine hit a nil dereference: the program is down
  ncalls,          \* calls made so far
  at,              \* history: what had already returned when the call began
  got,             \* history: the reader a read path got its result from
  hist             \* history: Receive calls made, returned and succeeded, the
                   \* SSRC of the one that passed the gate, a Stop succeeded

vars == <<exists, newErr, newArg, kind, transport, track, closedCh, receivedCh,
          mu, rtpReadStream, rtcpReadStream, rdState, pc, op, arg, ldr, ret,
          panicked, ncalls, at, got, hist>>

\* the fields of the receiver and the state of the objects it owns
rcvState == <<kind, transport, track, closedCh, receivedCh,
              rtpReadStream, rtcpReadStream, rdState>>

Init ==
  /\ exists = FALSE
  /\ newErr = "none"
  /\ newArg = NoNew
  /\ kind = "nil"
  /\ transport = NilTransport
  /\ track = NilTrack
  /\ closedCh = FALSE
  /\ receivedCh = FALSE
  /\ mu = [w |-> NoProc, r |-> {}]
  /\ rtpReadStream = NilReader
  /\ rtcpReadStream = NilReader
  /\ rdState = [s \in {"srtp", "srtcp"} |-> [closed |-> FALSE, closes |-> 0]]
  /\ pc = [p \in Procs |-> "idle"]
  /\ op = [p \in Procs |-> "none"]
  /\ arg = [p \in Procs |-> 0]
  /\ ldr = [p \in Procs |-> NilReader]
  /\ ret = [p \in Procs |-> NoRet]
  /\ panicked = FALSE
  /\ ncalls = 0
  /\ at = [p \in Procs |-> NoAt]
  /\ got = [p \in Procs |-> NoGot]
  /\ hist = [recv |-> 0, recvRet |-> FALSE, recvOk |-> 0, stopOk |-> FALSE, ssrc |-> 0]

\* ------------------------------------------------------- NewRTPReceiver
\* variant: the nil check of the transport is missing
TransportMissingNever(t) == FALSE
TransportMissing(t) == t = NilTransport

NewRTPReceiver ==
  /\ ~exists
  /\ \E k \in Kinds, t \in Transports :
       /\ newArg' = [kind |-> k, transport |-> t]
       /\ IF TransportMissing(t)
            THEN /\ newErr' = ErrNilTransport
                 /\ UNCHANGED <<exists, rcvState>>
            ELSE /\ newErr' = NoErr
                 /\ exists' = TRUE
                 /\ kind' = k
                 /\ transport' = t
                 /\ track' = NilTrack
                 /\ closedCh' = FALSE
                 /\ receivedCh' = FALSE
                 /\ rtpReadStream' = NilReader
                 /\ rtcpReadStream' = NilReader
                 /\ UNCHANGED rdState
  /\ UNCHANGED <<mu, pc, op, arg, ldr, ret, panicked, ncalls, at, got, hist>>

\* ------------------------------------------------------------- calls
Ops == {"Track", "Receive", "Read", "ReadRTCP", "Stop", "readRTP"}

Entry(o) ==
  CASE o = "Track"    -> "tk_rlock"
    [] o = "Receive"  -> "rc_lock"
    [] o = "Stop"     -> "st_lock"
    [] OTHER          -> "rd_select"

\* a goroutine that is in no call begins one of the calls ops
Call(p, ops) ==
  /\ exists /\ ~panicked
  /\ pc[p] = "idle"
  /\ ncalls < MaxCalls
  /\ \E o \in ops, s \in SSRCs :
       /\ op' = [op EXCEPT ![p] = o]
       /\ arg' = [arg EXCEPT ![p] = IF o = "Receive" THEN s ELSE 0]
       /\ pc' = [pc EXCEPT ![p] = Entry(o)]
       /\ hist' = [hist EXCEPT !.recv = IF o = "Receive" THEN @ + 1 ELSE @]
  /\ ncalls' = ncalls + 1
  /\ ret' = [ret EXCEPT ![p] = NoRet]
  /\ ldr' = [ldr EXCEPT ![p] = NilReader]
  /\ got' = [got EXCEPT ![p] = NoGot]
  /\ at' = [at EXCEPT ![p] = [recvRet |-> hist.recvRet,
                              recvOk  |-> hist.recvOk > 0,
                              stopOk  |-> hist.stopOk]]
  /\ UNCHANGED <<exists, newErr, newArg, rcvState, mu, panicked>>

Invoke(p) == Call(p, Ops)

\* the call of p returns x
Return(p, x) ==
  /\ pc' = [pc EXCEPT ![p] = "idle"]
  /\ ret' = [ret EXCEPT ![p] = x]

Err(e) == [NoRet EXCEPT !.err = e]

\* sync.RWMutex
CanLock  == mu.w = NoProc /\ mu.r = {}
CanRLock == mu.w = NoProc
Unlocked == [w |-> NoProc, r |-> {}]

\* --------------------------------------------------------------- Track
Track_RLock(p) ==
  /\ ~panicked /\ pc[p] = "tk_rlock"
  /\ CanRLock
  /\ mu' = [mu EXCEPT !.r = @ \cup {p}]
  /\ pc' = [pc EXCEPT ![p] = "tk_read"]
  /\ UNCHANGED <<exists, newErr, newArg, rcvState, op, arg, ldr, ret, panicked,
                 ncalls, at, got, hist>>

Track_Return(p) ==
  /\ ~panicked /\ pc[p] = "tk_read"
  /\ Return(p, [NoRet EXCEPT !.err = NoErr, !.val = track])
  /\ mu' = [mu EXCEPT !.r = @ \ {p}]
  /\ UNCHANGED <<exists, newErr, newArg, rcvState, op, arg, ldr, panicked,
                 ncalls, at, got, hist>>

Track(p) == Track_RLock(p) \/ Track_Return(p)

\* ------------------------------------------------------------- Receive
\* variant: Receive does not look at r.received
AlreadyReceivedNever == FALSE
\* the select on r.received finds the channel closed
AlreadyReceived == receivedCh

\* variant: the track is built without the SSRC of the parameters
NewTrackNoSSRC(s) == [kind |-> kind, ssrc |-> 0, receiver |-> Self]
\* &Track{kind: r.kind, ssrc: parameters.encodings.SSRC, receiver: r}
NewTrack(s) == [kind |-> kind, ssrc |-> s, receiver |-> Self]

\* the read stream a session opens for an SSRC, and its lossy wrapper
OpenReadStream(session, s) == [session |-> session, ssrc |-> s]
newLossyReadCloser(stream) == [wraps |-> stream.session, ssrc |-> stream.ssrc]

\* Receive returns x: the deferred Unlock runs
ReceiveReturn(p, x) ==
  /\ Return(p, x)
  /\ mu' = Unlocked
  /\ hist' = [hist EXCEPT !.recvRet = TRUE,
                          !.recvOk = IF x.err = NoErr THEN @ + 1 ELSE @]

Receive_Lock(p) ==
  /\ ~panicked /\ pc[p] = "rc_lock"
  /\ CanLock
  /\ mu' = [mu EXCEPT !.w = p]
  /\ pc' = [pc EXCEPT ![p] = "rc_gate"]
  /\ UNCHANGED <<exists, newErr, newArg, rcvState, op, arg, ldr, ret, panicked,
                 ncalls, at, got, hist>>

Receive_Gate(p) ==
  /\ ~panicked /\ pc[p] = "rc_gate"
  /\ IF AlreadyReceived
       THEN /\ ReceiveReturn(p, Err(ErrAlready))
            /\ UNCHANGED receivedCh
       ELSE /\ receivedCh' = TRUE
            /\ pc' = [pc EXCEPT ![p] = "rc_track"]
            /\ hist' = [hist EXCEPT !.ssrc = arg[p]]
            /\ UNCHANGED <<mu, ret>>
  /\ UNCHANGED <<exists, newErr, newArg, kind, transport, track, closedCh,
                 rtpReadStream, rtcpReadStream, rdState, op, arg, ldr, panicked,
                 ncalls, at, got>>

Receive_Track(p) ==
  /\ ~panicked /\ pc[p] = "rc_track"
  /\ track' = NewTrack(arg[p])
  /\ pc' = [pc EXCEPT ![p] = "rc_srtp"]
  /\ UNCHANGED <<exists, newErr, newArg, kind, transport, closedCh, receivedCh,
                 mu, rtpReadStream, rtcpReadStream, rdState, op, arg, ldr, ret,
                 panicked, ncalls, at, got, hist>>

\* variant: a Receive that fails at a collaborator step reopens the gate
Receive_CollabReopens(p, here, next, e) ==
  /\ ~panicked /\ pc[p] = here
  /\ \/ /\ pc' = [pc EXCEPT ![p] = next]
        /\ UNCHANGED <<mu, ret, hist, receivedCh>>
     \/ /\ ReceiveReturn(p, Err(e))
        /\ receivedCh' = FALSE
  /\ UNCHANGED <<exists, newErr, newArg, kind, transport, track, closedCh,
                 rtpReadStream, rtcpReadStream, rdState, op, arg, ldr, panicked,
                 ncalls, at, got>>

\* one of the four collaborator steps: it succeeds, or Receive returns its error
Receive_Collab(p, here, next, e) ==
  /\ ~panicked /\ pc[p] = here
  /\ \/ /\ pc' = [pc EXCEPT ![p] = next]
        /\ UNCHANGED <<mu, ret, hist>>
     \/ ReceiveReturn(p, Err(e))
  /\ UNCHANGED <<exists, newErr, newArg, rcvState, op, arg, ldr, panicked,
                 ncalls, at, got>>

Receive_SRTPSession(p)  == Receive_Collab(p, "rc_srtp", "rc_openrtp", ErrSRTPSession)
Receive_OpenSRTP(p)     == Receive_Collab(p, "rc_openrtp", "rc_srtcp", ErrOpenSRTP)
Receive_SRTCPSession(p) == Receive_Collab(p, "rc_srtcp", "rc_openrtcp", ErrSRTCPSession)
Receive_OpenSRTCP(p)    == Receive_Collab(p, "rc_openrtcp", "rc_store_rtp", ErrOpenSRTCP)

Receive_StoreRTP(p) ==
  /\ ~panicked /\ pc[p] = "rc_store_rtp"
  /\ rtpReadStream' = newLossyReadCloser(OpenReadStream("srtp", arg[p]))
  /\ pc' = [pc EXCEPT ![p] = "rc_store_rtcp"]
  /\ UNCHANGED <<exists, newErr, newArg, kind, transport, track, closedCh,
                 receivedCh, mu, rtcpReadStream, rdState, op, arg, ldr, ret,
                 panicked, ncalls, at, got, hist>>

\* variant: Receive returns success without storing the control reader
Receive_StoreRTCPSkipped(p) ==
  /\ ~panicked /\ pc[p] = "rc_store_rtcp"
  /\ ReceiveReturn(p, Err(NoErr))
  /\ UNCHANGED <<exists, newErr, newArg, rcvState, op, arg, ldr, panicked,
                 ncalls, at, got>>

\* line 86 and the return
Receive_StoreRTCP(p) ==
  /\ ~panicked /\ pc[p] = "rc_store_rtcp"
  /\ rtcpReadStream' = newLossyReadCloser(OpenReadStream("srtcp", arg[p]))
  /\ ReceiveReturn(p, Err(NoErr))
  /\ UNCHANGED <<exists, newErr, newArg, kind, transport, track, closedCh,
                 receivedCh, rtpReadStream, rdState, op, arg, ldr, panicked,
                 ncalls, at, got>>

Receive(p) ==
  \/ Receive_Lock(p) \/ Receive_Gate(p) \/ Receive_Track(p)
  \/ Receive_SRTPSession(p) \/ Receive_OpenSRTP(p)
  \/ Receive_SRTCPSession(p) \/ Receive_OpenSRTCP(p)
  \/ Receive_StoreRTP(p) \/ Receive_StoreRTCP(p)

\* a nil *lossyReadCloser is used: the goroutine panics and the program is down
Panic(p) ==
  /\ panicked' = TRUE
  /\ pc' = [pc EXCEPT ![p] = "panic"]
  /\ ret' = [ret EXCEPT ![p] = Err(ErrNilDeref)]

\* ------------------------------------------------- Read, readRTP, ReadRTCP
\* variant: the select has no case for r.closed
ReadReadyReceivedOnly == IF receivedCh THEN {"received"} ELSE {}
\* the cases of the select on r.closed and r.received that can proceed
ReadReady ==
  (IF closedCh THEN {"closed"} ELSE {}) \cup (IF receivedCh THEN {"received"} ELSE {})

\* variant: Read delegates to the media reader
ControlReaderIsMedia == rtpReadStream
\* the reader each read path delegates to
ControlReader == rtcpReadStream
MediaReader   == rtpReadStream

\* what lossyReadCloser.read can return
ReaderRead(rdr) == [n : 0..MaxN, err : {NoErr, ErrRead}]

\* what a read path returns for the reader's (n, err)
ReadResult(out) == [NoRet EXCEPT !.n = out.n, !.err = out.err]

Read_Select(p) ==
  /\ ~panicked /\ pc[p] = "rd_select"
  /\ \E c \in ReadReady :
       IF c = "closed"
         THEN Return(p, Err(ErrStopped))
         ELSE /\ pc' = [pc EXCEPT ![p] = "rd_load"]
              /\ UNCHANGED ret
  /\ UNCHANGED <<exists, newErr, newArg, rcvState, mu, op, arg, ldr, panicked,
                 ncalls, at, got, hist>>

Read_Load(p, rdr) ==
  /\ ~panicked /\ pc[p] = "rd_load"
  /\ IF rdr = NilReader
       THEN /\ Panic(p)
            /\ UNCHANGED ldr
       ELSE /\ ldr' = [ldr EXCEPT ![p] = rdr]
            /\ pc' = [pc EXCEPT ![p] = "rd_inreader"]
            /\ UNCHANGED <<ret, panicked>>
  /\ UNCHANGED <<exists, newErr, newArg, rcvState, mu, op, arg, ncalls, at, got, hist>>

\* the reader's read returns, and with it Read or readRTP
Read_Deliver(p) ==
  /\ ~panicked /\ pc[p] = "rd_inreader"
  /\ \E out \in ReaderRead(ldr[p]) :
       /\ got' = [got EXCEPT ![p] = [rdr |-> ldr[p].wraps, n |-> out.n, err |-> out.err]]
       /\ IF op[p] = "ReadRTCP" /\ out.err = NoErr
            THEN /\ pc' = [pc EXCEPT ![p] = "rr_unmarshal"]
                 /\ ret' = [ret EXCEPT ![p] = ReadResult(out)]
            ELSE Return(p, IF op[p] = "ReadRTCP" THEN Err(out.err) ELSE ReadResult(out))
  /\ UNCHANGED <<exists, newErr, newArg, rcvState, mu, op, arg, ldr, panicked,
                 ncalls, at, hist>>

\* rtcp.Unmarshal(b[:i])
ReadRTCP_Unmarshal(p) ==
  /\ ~panicked /\ pc[p] = "rr_unmarshal"
  /\ \/ Return(p, [NoRet EXCEPT !.err = NoErr, !.pkt = "packet"])
     \/ Return(p, Err(ErrUnmarshal))
  /\ UNCHANGED <<exists, newErr, newArg, rcvState, mu, op, arg, ldr, panicked,
                 ncalls, at, got, hist>>

Read(p) ==
  /\ op[p] = "Read"
  /\ Read_Select(p) \/ Read_Load(p, ControlReader) \/ Read_Deliver(p)

ReadRTCP(p) ==
  /\ op[p] = "ReadRTCP"
  /\ \/ Read_Select(p) \/ Read_Load(p, ControlReader) \/ Read_Deliver(p)
     \/ ReadRTCP_Unmarshal(p)

readRTP(p) ==
  /\ op[p] = "readRTP"
  /\ Read_Select(p) \/ Read_Load(p, MediaReader) \/ Read_Deliver(p)

\* ---------------------------------------------------------------- Stop
\* variant: Stop does not look at r.closed
StopAlreadyClosedNever == FALSE
\* the select on r.closed finds the channel closed
StopAlreadyClosed == closedCh

\* variant: Stop closes the readers without looking at r.received
StopMustCloseReadersAlways == TRUE
\* the select on r.received finds the channel closed
StopMustCloseReaders == receivedCh

\* lossyReadCloser.close on the reader wrapping stream s, succeeding or not
ReaderClose(s, ok) ==
  [rdState EXCEPT ![s] = [closed |-> @.closed \/ ok, closes |-> @.closes + 1]]

\* Stop returns x: the deferred Unlock runs
StopReturn(p, x) ==
  /\ Return(p, x)
  /\ mu' = Unlocked
  /\ hist' = [hist EXCEPT !.stopOk = @ \/ x.err = NoErr]

Stop_Lock(p) ==
  /\ ~panicked /\ pc[p] = "st_lock"
  /\ CanLock
  /\ mu' = [mu EXCEPT !.w = p]
  /\ pc' = [pc EXCEPT ![p] = "st_gate"]
  /\ UNCHANGED <<exists, newErr, newArg, rcvState, op, arg, ldr, ret, panicked,
                 ncalls, at, got, hist>>

Stop_Gate(p) ==
  /\ ~panicked /\ pc[p] = "st_gate"
  /\ IF StopAlreadyClosed
       THEN StopReturn(p, Err(NoErr))
       ELSE /\ pc' = [pc EXCEPT ![p] = IF StopMustCloseReaders
                                         THEN "st_close_rtcp" ELSE "st_closegate"]
            /\ UNCHANGED <<mu, ret, hist>>
  /\ UNCHANGED <<exists, newErr, newArg, rcvState, op, arg, ldr, panicked,
                 ncalls, at, got>>

\* r.<reader>.close(): on an error Stop returns it, else it goes on to next
Stop_Close(p, here, rdr, next) ==
  /\ ~panicked /\ pc[p] = here
  /\ IF rdr = NilReader
       THEN /\ Panic(p)
            /\ mu' = Unlocked
            /\ UNCHANGED <<rdState, hist>>
       ELSE /\ UNCHANGED panicked
            /\ \E ok \in BOOLEAN :
                 /\ rdState' = ReaderClose(rdr.wraps, ok)
                 /\ IF ok
                      THEN /\ pc' = [pc EXCEPT ![p] = next]
                           /\ UNCHANGED <<mu, ret, hist>>
                      ELSE StopReturn(p, Err(ErrClose))
  /\ UNCHANGED <<exists, newErr, newArg, kind, transport, track, closedCh,
                 receivedCh, rtpReadStream, rtcpReadStream, op, arg, ldr,
                 ncalls, at, got>>

Stop_CloseRTCP(p) == Stop_Close(p, "st_close_rtcp", rtcpReadStream, "st_close_rtp")
Stop_CloseRTP(p)  == Stop_Close(p, "st_close_rtp", rtpReadStream, "st_closegate")

Stop_CloseGate(p) ==
  /\ ~panicked /\ pc[p] = "st_closegate"
  /\ closedCh' = TRUE
  /\ StopReturn(p, Err(NoErr))
  /\ UNCHANGED <<exists, newErr, newArg, kind, transport, track, receivedCh,
                 rtpReadStream, rtcpReadStream, rdState, op, arg, ldr, panicked,
                 ncalls, at, got>>

Stop(p) ==
  \/ Stop_Lock(p) \/ Stop_Gate(p)
  \/ Stop_CloseRTCP(p) \/ Stop_CloseRTP(p) \/ Stop_CloseGate(p)

\* ------------------------------------------------------- specification
Next ==
  \/ NewRTPReceiver
  \/ \E p \in Procs :
       \/ Invoke(p)
       \/ Track(p) \/ Receive(p) \/ Read(p) \/ ReadRTCP(p) \/ Stop(p) \/ readRTP(p)

Spec == Init /\ [][Next]_vars

\* Fairness of the Go scheduler: a goroutine that can take a step of its call
\* takes it.  Beginning a call is up to the caller, and a reader's read
\* returns only when the transport delivers, so neither is fair.
Progress(p) ==
  \/ Track(p) \/ Receive(p) \/ Stop(p)
  \/ /\ pc[p] # "rd_inreader"
     /\ Read(p) \/ ReadRTCP(p) \/ readRTP(p)

LiveSpec == Spec /\ \A p \in Procs : WF_vars(Progress(p))

\* The receiver on which Receive is never called: r.received stays open, so
\* of Stop only the steps that skip the readers remain.
InvokeNoReceive(p) == Call(p, Ops \ {"Receive"})

StopNeverReceived(p) == Stop_Lock(p) \/ Stop_Gate(p) \/ Stop_CloseGate(p)

NextNeverReceived ==
  \/ NewRTPReceiver
  \/ \E p \in Procs :
       \/ InvokeNoReceive(p)
       \/ Track(p) \/ Read(p) \/ ReadRTCP(p) \/ StopNeverReceived(p) \/ readRTP(p)

NeverReceivedSpec ==
  Init /\ [][NextNeverReceived]_vars /\ \A p \in Procs : WF_vars(Progress(p))

\* ------------------------------------------------------------- claims
Reads == {"Read", "readRTP"}
CollabErrs == {ErrSRTPSession, ErrOpenSRTP, ErrSRTCPSession, ErrOpenSRTCP}
ReturnedFrom(p, o) == op[p] = o /\ pc[p] = "idle"

\* C1: at most one Receive call returns success, and a Receive call begun
\* after an earlier Receive call has returned fails with "Receive has already
\* been called", whether the earlier call succeeded or failed.
C1_ReceiveOneShot ==
  /\ hist.recvOk <= 1
  /\ \A p \in Procs :
       (ReturnedFrom(p, "Receive") /\ at[p].recvRet) => ret[p].err = ErrAlready

\* a second Receive was refused although the first one failed
C1_Witness ==
  \E p \in Procs :
    /\ ReturnedFrom(p, "Receive") /\ at[p].recvRet
    /\ ret[p].err = ErrAlready
    /\ hist.recvOk = 0

\* the only two Receive calls made on the receiver overlapped, and both returned
ConcurrentReceives(p, q) ==
  /\ p # q /\ hist.recv = 2
  /\ ReturnedFrom(p, "Receive") /\ ReturnedFrom(q, "Receive")
  /\ ~at[p].recvRet /\ ~at[q].recvRet

\* C2 as stated: of two concurrent Receive calls exactly one succeeds and the
\* other returns "Receive has already been called".
C2_ExactlyOneSucceeds ==
  \A p, q \in Procs :
    ConcurrentReceives(p, q) =>
      \/ ret[p].err = NoErr /\ ret[q].err = ErrAlready
      \/ ret[q].err = NoErr /\ ret[p].err = ErrAlready

\* C2 amended: of two concurrent Receive calls exactly one passes the gate and
\* the other returns "Receive has already been called"; the one that passed
\* returns success when it stored the readers and else the error of the
\* collaborator step that failed.
C2_ExactlyOnePassesGate ==
  \A p, q \in Procs :
    ConcurrentReceives(p, q) =>
      \E w \in {p, q} : \E l \in {p, q} \ {w} :
        /\ ret[l].err = ErrAlready
        /\ ret[w].err \in {NoErr} \cup CollabErrs
        /\ ret[w].err = NoErr <=> rtcpReadStream # NilReader
        /\ ret[w].err = NoErr <=> rtpReadStream # NilReader

\* two concurrent Receive calls, none of which succeeded
C2_Witness ==
  \E p, q \in Procs :
    /\ ConcurrentReceives(p, q)
    /\ ret[p].err = ErrOpenSRTCP /\ ret[q].err = ErrAlready

\* C3 as stated: a Read or readRTP call begun after a Stop has returned success
\* never delegates to a reader, is never blocked, and returns the Stopped error.
C3_ReadAfterStopIsStopped ==
  \A p \in Procs :
    (op[p] \in Reads /\ at[p].stopOk) =>
      /\ pc[p] \in {"rd_select", "idle"}
      /\ pc[p] = "rd_select" => "closed" \in ReadReady
      /\ pc[p] = "idle" => ret[p].err = ErrStopped

\* C4 as stated: once r.closed is closed, every reader the receiver holds has
\* been closed; a Receive after a successful Stop stores no open reader.
C4_NoOpenReaderAfterTeardown ==
  closedCh =>
    \A rdr \in {rtpReadStream, rtcpReadStream} :
      rdr = NilReader \/ rdState[rdr.wraps].closed

\* p is blocked in, or about to leave, the select of Read or readRTP
Pending(p) == op[p] \in Reads /\ pc[p] = "rd_select"

C5_StaysBlocked ==
  \A p \in Procs :
    (Pending(p) /\ ~receivedCh) =>
      IF closedCh
        THEN Pending(p)' \/ (pc'[p] = "idle" /\ ret'[p].err = ErrStopped)
        ELSE Pending(p)'

\* C5: on a receiver on which Receive is never called, a Read or readRTP call
\* stays in its select as long as r.closed is open (no Stop has got to close
\* it), and once r.closed is closed it returns, with the Stopped error.
C5_BlockedUntilStop ==
  /\ [](hist.recv = 0 /\ ~receivedCh)
  /\ [][C5_StaysBlocked]_vars
  /\ \A p \in Procs :
       (Pending(p) /\ closedCh) ~> (pc[p] = "idle" /\ ret[p].err = ErrStopped)

\* a read begun before any Stop succeeded returned Stopped; Receive never called
C5_Witness ==
  \E p \in Procs :
    /\ op[p] \in Reads /\ pc[p] = "idle"
    /\ ~at[p].stopOk /\ hist.recv = 0
    /\ ret[p].err = ErrStopped

\* C6: on a receiver whose Receive succeeded and that is not torn down, Read
\* reads the reader of the SRTCP stream and readRTP the reader of the SRTP
\* stream, and each returns that reader's byte count and error.
C6_ReadsDelegate ==
  \A p \in Procs :
    (op[p] \in Reads /\ at[p].recvOk /\ ~closedCh) =>
      LET want == IF op[p] = "Read" THEN "srtcp" ELSE "srtp" IN
      /\ pc[p] \in {"rd_select", "rd_load", "rd_inreader", "idle"}
      /\ pc[p] = "rd_inreader" => ldr[p] = [wraps |-> want, ssrc |-> hist.ssrc]
      /\ pc[p] = "idle" =>
           /\ got[p].rdr = want
           /\ ret[p].n = got[p].n /\ ret[p].err = got[p].err

\* readRTP returned the media reader's bytes together with its error
C6_Witness ==
  \E p \in Procs :
    /\ ReturnedFrom(p, "readRTP") /\ at[p].recvOk /\ ~closedCh
    /\ got[p] = [rdr |-> "srtp", n |-> MaxN, err |-> ErrRead]
    /\ ret[p].n = MaxN /\ ret[p].err = ErrRead

C7_NoEffect ==
  \A p \in Procs :
    (hist.stopOk /\ op[p] = "Stop" /\ pc[p] # "idle" /\ pc'[p] # pc[p]) =>
      /\ rcvState' = rcvState
      /\ pc'[p] \in {"st_gate", "idle"}
      /\ pc'[p] = "idle" => ret'[p].err = NoErr

\* C7: once a Stop has returned success, every step of a Stop call leaves the
\* receiver, its gates and its readers as they are (no close is invoked), and
\* the call returns success.
C7_StopIdempotent == [][C7_NoEffect]_vars

\* a Stop begun after a successful Stop of an activated receiver returned
C7_Witness ==
  \E p \in Procs :
    /\ ReturnedFrom(p, "Stop") /\ at[p].stopOk /\ ret[p].err = NoErr
    /\ rtcpReadStream # NilReader

C8_NoClose ==
  \A p \in Procs :
    (op[p] = "Stop" /\ ~receivedCh) =>
      /\ pc[p] \notin {"st_close_rtcp", "st_close_rtp", "panic"}
      /\ pc[p] = "st_lock" => (ENABLED Stop(p) <=> CanLock)
      /\ pc[p] \in {"st_gate", "st_closegate"} => ENABLED Stop(p)

C8_ClosesGate ==
  \A p \in Procs :
    (op[p] = "Stop" /\ ~receivedCh /\ pc[p] # "idle" /\ pc'[p] # pc[p]) =>
      /\ rdState' = rdState
      /\ pc'[p] = "idle" => (closedCh' /\ ret'[p].err = NoErr)

\* C8: a Stop that runs while r.received is open invokes close on no reader,
\* waits for nothing but the lock, and returns success with r.closed closed.
C8_StopBeforeReceive == []C8_NoClose /\ [][C8_ClosesGate]_vars

\* Stop closed the gate of a receiver never activated, a read still pending
C8_Witness ==
  \E p, q \in Procs :
    /\ ReturnedFrom(p, "Stop") /\ ~at[p].stopOk /\ ret[p].err = NoErr
    /\ ~receivedCh /\ closedCh
    /\ Pending(q)

\* the handle the Receive that passed the gate builds
Handle == [kind |-> newArg.kind, ssrc |-> hist.ssrc, receiver |-> Self]

C9_Returns ==
  /\ hist.recv = 0 => track = NilTrack
  /\ \A p \in Procs :
       ReturnedFrom(p, "Track") =>
         /\ ret[p].val \in {NilTrack, Handle}
         /\ ~receivedCh => ret[p].val = NilTrack
         /\ at[p].recvRet => ret[p].val = Handle

C9_NoEffect ==
  \A p \in Procs :
    (op[p] = "Track" /\ pc'[p] # pc[p]) =>
      /\ rcvState' = rcvState
      /\ pc'[p] = "idle" => mu' = [mu EXCEPT !.r = @ \ {p}]

\* C9: Track returns nil as long as Receive has not been called, and after a
\* Receive has returned it returns the handle that Receive built (the
\* receiver's kind, the SSRC of the parameters, the receiver); Track itself
\* changes nothing of the receiver.
C9_TrackAccessor == []C9_Returns /\ [][C9_NoEffect]_vars

\* Track returned the handle of a Receive that failed at a collaborator step
C9_Witness ==
  \E p \in Procs :
    /\ ReturnedFrom(p, "Track") /\ at[p].recvRet
    /\ ret[p].val = [kind |-> "video", ssrc |-> MaxSSRC, receiver |-> Self]
    /\ hist.recvOk = 0

\* C10: NewRTPReceiver fails with "DTLSTransport must not be nil" and returns
\* no receiver when the transport is nil; else it returns a receiver of the
\* given kind and transport, both gates open, no handle and no readers.
C10_Construction ==
  /\ newErr # "none" =>
       IF newArg.transport = NilTransport
         THEN ~exists /\ newErr = ErrNilTransport
         ELSE exists /\ newErr = NoErr
  /\ ~exists => rcvState = <<"nil", NilTransport, NilTrack, FALSE, FALSE,
                             NilReader, NilReader, rdState>>
  /\ (exists /\ ncalls = 0) =>
       /\ kind = newArg.kind /\ transport = newArg.transport
       /\ ~closedCh /\ ~receivedCh
       /\ track = NilTrack
       /\ rtpReadStream = NilReader /\ rtcpReadStream = NilReader

\* NewRTPReceiver was refused a nil transport
C10_Witness ==
  /\ newErr = ErrNilTransport /\ newArg.transport = NilTransport
  /\ ~exists

\* no Receive call holds the lock
NoReceiveUnderWay == \A p \in Procs : ~(op[p] = "Receive" /\ mu.w = p)

\* C11 as stated, and read in its favour for the states in which no Receive
\* holds the lock: the handle and the two readers are all absent or all
\* present, and present exactly when r.received is closed.
C11_AllOrNothing ==
  NoReceiveUnderWay =>
    /\ (track # NilTrack) <=> receivedCh
    /\ (rtpReadStream # NilReader) <=> receivedCh
    /\ (rtcpReadStream # NilReader) <=> receivedCh

\* C12 as stated: a Read or readRTP call that has found r.received closed, and
\* is about to use its reader, finds both readers stored.
C12_ReadersPublishedWithGate ==
  \A p \in Procs :
    (op[p] \in Reads /\ pc[p] \in {"rd_load", "panic"}) =>
      /\ pc[p] = "rd_load"
      /\ rtpReadStream # NilReader /\ rtcpReadStream # NilReader

\* the Receive that passed the gate has returned an error
ReceiveFailed == hist.recvRet /\ hist.recvOk = 0

\* the error of the collaborator step a Receive is at
CollabErrAt(l) ==
  CASE l = "rc_srtp"     -> ErrSRTPSession
    [] l = "rc_openrtp"  -> ErrOpenSRTP
    [] l = "rc_srtcp"    -> ErrSRTCPSession
    [] l = "rc_openrtcp" -> ErrOpenSRTCP

C13_GateStaysClosed ==
  ReceiveFailed =>
    /\ receivedCh
    /\ rtpReadStream = NilReader /\ rtcpReadStream = NilReader
    /\ \A q \in Procs :
         (Pending(q) /\ ~panicked) => ENABLED Read_Select(q)

C13_FailsAndUnblocks ==
  /\ \A p \in Procs :
       ( /\ op[p] = "Receive" /\ pc'[p] = "idle"
         /\ pc[p] \in {"rc_srtp", "rc_openrtp", "rc_srtcp", "rc_openrtcp"} ) =>
         /\ ret'[p].err = CollabErrAt(pc[p])
         /\ receivedCh'
         /\ rtpReadStream' = NilReader /\ rtcpReadStream' = NilReader
  /\ \A q \in Procs :
       (Pending(q) /\ ReceiveFailed /\ ~closedCh /\ pc'[q] # pc[q]) =>
         /\ pc'[q] = "rd_load"
         /\ rtpReadStream' = NilReader /\ rtcpReadStream' = NilReader

\* C13: a Receive that fails at one of its four collaborator steps returns
\* the error of that step and leaves r.received closed and both readers
\* absent; a pending Read or readRTP is thereby unblocked and, r.closed being
\* open, goes on to use its reader although none has been stored.
C13_FailedReceiveUnblocksReads ==
  []C13_GateStaysClosed /\ [][C13_FailsAndUnblocks]_vars

\* a read begun before the failing Receive returned is about to use its reader
C13_Witness ==
  /\ ReceiveFailed /\ ~closedCh
  /\ \E q \in Procs :
       /\ op[q] \in Reads /\ pc[q] = "rd_load" /\ ~at[q].recvRet
       /\ rtpReadStream = NilReader /\ rtcpReadStream = NilReader

\* the step of a Stop at a close step: the close of stream s is invoked once,
\* the other stream is left alone, and Stop goes on to next or returns the
\* error of the close with r.closed still open
C14_ClosesThenGoesOn(p, s, other, next) ==
  /\ rdState'[s].closes = rdState[s].closes + 1
  /\ rdState'[other] = rdState[other]
  /\ ~closedCh'
  /\ \/ pc'[p] = next /\ rdState'[s].closed
     \/ pc'[p] = "idle" /\ ret'[p].err = ErrClose

\* C14 as stated: a Stop that finds r.received closed and r.closed open closes
\* the control reader, then the media reader; a close that fails makes Stop
\* return its error with r.closed left open, so that the next Stop closes again.
C14_CloseOrderAndRetry ==
  [][\A p \in Procs :
       (op[p] = "Stop" /\ receivedCh /\ ~closedCh /\ pc'[p] # pc[p]) =>
         /\ pc[p] = "st_gate" => pc'[p] = "st_close_rtcp"
         /\ pc[p] = "st_close_rtcp" =>
              C14_ClosesThenGoesOn(p, "srtcp", "srtp", "st_close_rtp")
         /\ pc[p] = "st_close_rtp" =>
              C14_ClosesThenGoesOn(p, "srtp", "srtcp", "st_closegate")]_vars

\* C15 as stated: over any sequence of Stop calls, close is not invoked again
\* on a reader whose close has already been invoked successfully.
C15_NoSecondClose ==
  [][\A s \in DOMAIN rdState :
       rdState[s].closed => rdState'[s].closes = rdState[s].closes]_vars

\* C16 as stated: a Stop that closes the control reader goes on to close the
\* media reader whether or not the first close failed, so that, whenever no
\* Stop stands between its two close steps, close has been invoked on the
\* media reader as often as on the control reader.
C16_BothClosesAttempted ==
  (\A p \in Procs : pc[p] # "st_close_rtp") =>
    rdState["srtp"].closes = rdState["srtcp"].closes

\* C17: under every interleaving of Receive, Stop and the reads, a closed gate
\* never reopens and no close of an already closed gate is attempted;
\* r.received is closed only by a Receive, and r.closed only by a Stop, that
\* holds the exclusive lock and has just found the gate open.
C17_GatesCloseOnce ==
  /\ []( \A p \in Procs :
           /\ pc[p] \in {"rc_gate", "st_gate", "st_closegate"} => mu.w = p
           /\ pc[p] = "st_closegate" => ~closedCh )
  /\ [][ /\ receivedCh => receivedCh'
         /\ closedCh => closedCh'
         /\ \A p \in Procs :
              (op[p] = "Receive" /\ pc[p] = "rc_gate" /\ pc'[p] = "rc_track")
                => ~receivedCh
         /\ receivedCh' # receivedCh =>
              \E p \in Procs : /\ op[p] = "Receive" /\ pc[p] = "rc_gate"
                               /\ mu.w = p /\ pc'[p] = "rc_track"
         /\ closedCh' # closedCh =>
              \E p \in Procs : /\ op[p] = "Stop" /\ pc[p] = "st_closegate"
                               /\ mu.w = p /\ pc'[p] = "idle" ]_vars

\* both gates are closed, and a second Receive was refused at the closed gate
C17_Witness ==
  /\ receivedCh /\ closedCh
  /\ \E p, q \in Procs :
       /\ ReturnedFrom(p, "Receive") /\ ret[p].err = ErrAlready
       /\ ReturnedFrom(q, "Stop") /\ ret[q].err = NoErr

\* the exclusive lock is held, or read-held, by a call other than a read
C18_LockedByNonRead ==
  \/ mu.w # NoProc /\ op[mu.w] \in {"Receive", "Stop"}
  \/ \E q \in mu.r : op[q] = "Track"

\* reads hold no lock; a Receive or Stop under way waits for nothing but the
\* lock held by a Receive, Stop or Track call, and else can take its next step
C18_RunsToCompletion ==
  /\ \A q \in Procs :
       op[q] \in Reads \cup {"ReadRTCP"} => mu.w # q /\ q \notin mu.r
  /\ \A p \in Procs :
       (op[p] \in {"Receive", "Stop"} /\ pc[p] # "idle") =>
         \/ ENABLED (Receive(p) \/ Stop(p))
         \/ pc[p] \in {"rc_lock", "st_lock"} /\ C18_LockedByNonRead

\* when a Stop returns, every read then pending is released: the select of a
\* read at the gate has a ready case, and the reader a read is inside is closed
C18_StopReleasesReads ==
  \A p, q \in Procs :
    (op[p] = "Stop" /\ pc[p] # "idle" /\ pc'[p] = "idle" /\ op[q] \in Reads) =>
      /\ pc'[q] = "rd_select" => ReadReady' # {}
      /\ pc'[q] = "rd_inreader" => rdState'[ldr'[q].wraps].closed

\* C18 as stated: Receive and Stop never wait for a read; whatever reads are
\* blocked at the gate or inside a reader, a Receive or Stop call acquires the
\* lock and runs to completion, and a Stop issued while reads are pending
\* completes and releases them.
C18_NeverWaitForReads ==
  []C18_RunsToCompletion /\ [][C18_StopReleasesReads]_vars

\* C19 as stated: a Stop that is about to call close on the control or on the
\* media reader finds that reader present, also after a Receive that failed
\* before it stored the readers.
C19_StopClosesPresentReaders ==
  \A p \in Procs :
    /\ pc[p] = "st_close_rtcp" => rtcpReadStream # NilReader
    /\ pc[p] = "st_close_rtp" => rtpReadStream # NilReader

\* C20 as stated: in every reachable state the media reader and the control
\* reader are both absent or both present.
C20_BothOrNeither ==
  (rtpReadStream = NilReader) <=> (rtcpReadStream = NilReader)

C20_PairedOutsideReceive ==
  /\ NoReceiveUnderWay => C20_BothOrNeither
  /\ rtcpReadStream # NilReader => rtpReadStream # NilReader
  /\ (rtpReadStream # NilReader /\ rtcpReadStream = NilReader) =>
       \E p \in Procs : op[p] = "Receive" /\ pc[p] = "rc_store_rtcp" /\ mu.w = p

C20_StoredByReceiveOnly ==
  /\ rtpReadStream' # rtpReadStream =>
       /\ rtpReadStream = NilReader /\ rtpReadStream' # NilReader
       /\ \E p \in Procs : /\ op[p] = "Receive" /\ pc[p] = "rc_store_rtp"
                           /\ pc'[p] = "rc_store_rtcp"
  /\ rtcpReadStream' # rtcpReadStream =>
       /\ rtcpReadStream = NilReader /\ rtcpReadStream' # NilReader
       /\ \E p \in Procs : /\ op[p] = "Receive" /\ pc[p] = "rc_store_rtcp"
                           /\ pc'[p] = "idle" /\ ret'[p].err = NoErr
  /\ \A p \in Procs :
       (op[p] = "Receive" /\ pc'[p] = "idle" /\ pc[p] # "idle") =>
         IF ret'[p].err = NoErr
           THEN rtpReadStream' # NilReader /\ rtcpReadStream' # NilReader
           ELSE UNCHANGED <<rtpReadStream, rtcpReadStream>>

\* C20, amended: in every state in which no Receive holds the lock the two
\* readers are both absent or both present. Receive stores them in its last
\* two steps, the media reader and then the control reader, after all four
\* collaborator steps succeeded, so that in between the media reader alone is
\* present; no other operation sets or clears either slot.
C20_ReadersStoredAsPair ==
  []C20_PairedOutsideReceive /\ [][C20_StoredByReceiveOnly]_vars

\* both readers are still in their slots after Stop closed them
C20_Witness ==
  /\ NoReceiveUnderWay /\ hist.recvOk > 0 /\ closedCh
  /\ rtpReadStream # NilReader /\ rtcpReadStream # NilReader
  /\ rdState["srtp"].closed /\ rdState["srtcp"].closed

====
